---------------------------- MODULE Spec2Model ----------------------------
(***************************************************************************)
(* DualPol v0.9 (src/dualpol.py): the construction of a DualPolRetrieval   *)
(* object, which runs field resolution, the optional KDP calculation,      *)
(* sounding ingestion, QC and the four retrieval stages in sequence.       *)
(*                                                                         *)
(* A radar volume is one ray of NGates gates.  A field carries a per-gate  *)
(* mask, a fill value and, per gate, whether the raw datum equals the      *)
(* bad-data sentinel (self.bad).  The csu_radartools algorithms are        *)
(* external: their numeric results are not modelled, the masks returned by *)
(* the QC filters are any masks, and the calls are logged.                 *)
(***************************************************************************)
EXTENDS Integers, Sequences, FiniteSets, TLC

NGates == 3        \* gates per ray
MaxSndLen == 2     \* longest sounding array in specification Spec
MaxHeight == 2     \* sounding heights are 0..MaxHeight there
MaxSpeckle == 2    \* the speckle keyword ranges over 1..MaxSpeckle
ProfLen == 4       \* longest sounding array in the profile specification
ProfTop == 3       \* sounding heights are 0..ProfTop there

Gates == 1..NGates
Masks == [Gates -> BOOLEAN]
NoMask == [g \in Gates |-> FALSE]

None == "None"

\* Field names: the caller's bindings and the names the code writes.
FieldNames ==
    {"DZ", "DR", "RH", "KD", "LD", "DP", "KDP_CSU", "FDP_CSU", "SDP_CSU",
     "FH", "ZDP", "FI", "rain", "method", "D0", "NW", "MU", "MW", "MI"}

DerivedNames == FieldNames \ {"DZ", "DR", "RH", "KD", "LD", "DP"}

\* A field that is not in radar.fields.
Absent ==
    [present |-> FALSE, hasMask |-> FALSE, mask |-> NoMask, isbad |-> NoMask,
     fill |-> "none", by |-> "nobody"]

\* A field the caller supplied: a masked array without masked gates.
Supplied ==
    [present |-> TRUE, hasMask |-> TRUE, mask |-> NoMask, isbad |-> NoMask,
     fill |-> "own", by |-> "caller"]

VARIABLES
    pc,        \* the statement of __init__ that runs next
    outcome,   \* "running", "returned" (all of __init__ ran),
               \* "returned_early" (a bare return), "raised"
    error,     \* the exception that left __init__ and the stage that raised it
    warned,    \* warnings.warn messages issued
    printed,   \* unconditional print notices issued
    kw,        \* the keyword arguments after check_kwargs
    fields,    \* radar.fields
    self,      \* the attributes of the object that later code reads
    env,       \* what the volume's data make the external code return
    calls,     \* the csu_radartools calls made, with the arguments of interest
    qc         \* the local arrays of the last do_qc call

vars == <<pc, outcome, error, warned, printed, kw, env, fields, self, calls, qc>>

-----------------------------------------------------------------------------
(* Masked arrays and the commit of a derived field                          *)

BaseName == "DZ"   \* self.name_dz, the default binding of the dz keyword

\* np.ma.getmaskarray: the per-gate mask of a field, no mask being all False.
MaskOf(f) == IF f.hasMask THEN f.mask ELSE NoMask

\* extract_unmasked_data: per gate, whether the extracted plain array holds
\* self.bad there.  A masked array is filled with bad at its masked gates; an
\* array without a mask is returned as it is.
extract_unmasked_data(flds, name) ==
    LET var == flds[name]
    IN  IF var.hasMask
        THEN [g \in Gates |-> var.mask[g] \/ var.isbad[g]]
        ELSE var.isbad

\* A fill-value lookup that fails only once the engine has written a field.
CommitFails_later(flds) ==
    /\ flds[BaseName].hasMask /\ flds[BaseName].fill = "none"
    /\ \E f \in DerivedNames : flds[f].by \notin {"caller", "nobody"}

\* add_field_to_radar_object reads radar.fields[name_dz]['_FillValue'] when the
\* base data has a mask: a KeyError when the base field has no such key.
CommitFails(flds) ==
    flds[BaseName].hasMask /\ flds[BaseName].fill = "none"

\* A commit that wraps the result without copying the base mask onto it.
add_field_to_radar_object_nomask(flds, field_name, by) ==
    [flds EXCEPT ![field_name] =
        [present |-> TRUE, hasMask |-> TRUE, mask |-> NoMask, isbad |-> NoMask,
         fill |-> IF flds[BaseName].hasMask THEN flds[BaseName].fill ELSE "bad",
         by |-> by]]

\* A commit whose setattr shares the mask array with the base data and sets
\* every gate of it.
add_field_to_radar_object_shared(flds, field_name, by) ==
    [flds EXCEPT ![field_name] =
        [present |-> TRUE, hasMask |-> TRUE,
         mask |-> [g \in Gates |-> TRUE], isbad |-> NoMask,
         fill |-> IF flds[BaseName].hasMask THEN flds[BaseName].fill ELSE "bad",
         by |-> by],
              ![BaseName].mask = [g \in Gates |-> TRUE]]

\* add_field_to_radar_object: the field is wrapped as a masked array; when the
\* base reflectivity data has a mask, that mask is copied onto it and the
\* base field's _FillValue is adopted; else the fill value is self.bad.
add_field_to_radar_object(flds, field_name, by) ==
    LET base == flds[BaseName]
        field_dict ==
            [present |-> TRUE,
             hasMask |-> TRUE,
             mask    |-> IF base.hasMask THEN base.mask ELSE NoMask,
             isbad   |-> NoMask,
             fill    |-> IF base.hasMask THEN base.fill ELSE "bad",
             by      |-> by]
    IN  [flds EXCEPT ![field_name] = field_dict]

\* Successive add_field_to_radar_object calls, in the order of names, each
\* reading the fill value anew: the volume after the calls that succeeded, and
\* whether all of them did.
RECURSIVE try_add_fields(_, _, _)
try_add_fields(flds, names, by) ==
    IF names = <<>> THEN [flds |-> flds, ok |-> TRUE]
    ELSE IF CommitFails(flds) THEN [flds |-> flds, ok |-> FALSE]
    ELSE try_add_fields(add_field_to_radar_object(flds, Head(names), by),
                        Tail(names), by)

-----------------------------------------------------------------------------
(* The sounding                                                             *)

\* One sounding temperature: its value and its mask bit.
Temp(v, inv) == [val |-> v, inv |-> inv]

EmptyProfile == [z |-> <<>>, T |-> <<>>, err |-> "none"]

\* The loop of check_sounding_for_montonic from index i (1-based here): entry
\* i is kept when its height exceeds the height of entry i-1 of the input and
\* its temperature is not masked.  The mask is read only after the height
\* test passed; reading it beyond the end of snd_T is an IndexError.
RECURSIVE Walk(_, _, _, _)
Walk(z, T, i, acc) ==
    IF i > Len(z) THEN acc
    ELSE IF z[i] > z[i-1]
         THEN IF i > Len(T) THEN [acc EXCEPT !.err = "IndexError"]
              ELSE IF ~T[i].inv
                   THEN Walk(z, T, i + 1,
                             [acc EXCEPT !.z = Append(@, z[i]),
                                         !.T = Append(@, T[i])])
                   ELSE Walk(z, T, i + 1, acc)
         ELSE Walk(z, T, i + 1, acc)

\* check_sounding_for_montonic on an object whose snd_T attribute is set:
\* hasZ tells whether snd_z is set too.  The result is the pair of plain
\* arrays the method stores, or the exception it raises.
check_sounding_for_montonic(z, T, hasZ) ==
    IF Len(T) = 0 THEN [EmptyProfile EXCEPT !.err = "IndexError"]
    ELSE IF ~hasZ THEN [EmptyProfile EXCEPT !.err = "AttributeError"]
    ELSE IF ~T[1].inv /\ Len(z) = 0 THEN [EmptyProfile EXCEPT !.err = "IndexError"]
    ELSE LET first == IF ~T[1].inv
                      THEN [EmptyProfile EXCEPT !.z = <<z[1]>>,
                                                !.T = <<T[1]>>]
                      ELSE EmptyProfile
         IN  Walk(z, T, 2, first)

-----------------------------------------------------------------------------
(* The speckle filter of do_qc                                              *)

\* The number of contiguous valid gates around a valid gate g.
RECURSIVE Left(_, _)
Left(isbad, g) == IF g < 1 \/ isbad[g] THEN 0 ELSE 1 + Left(isbad, g - 1)

RECURSIVE Right(_, _)
Right(isbad, g) == IF g > NGates \/ isbad[g] THEN 0 ELSE 1 + Right(isbad, g + 1)

RunLength(isbad, g) == Left(isbad, g) + Right(isbad, g) - 1

\* csu_misc.despeckle as the speckle keyword documents it: a gate is a
\* speckle when it lies in a run of ngates or fewer contiguous valid gates.
\* Whether the returned mask also covers the gates that already hold bad is
\* the library's choice (onBad).
despeckle(isbad, ngates, onBad) ==
    [g \in Gates |-> IF isbad[g] THEN onBad ELSE RunLength(isbad, g) <= ngates]

-----------------------------------------------------------------------------
(* __init__ up to the end of field resolution                               *)

NoError == [exc |-> "none", at |-> "none"]

\* An exception leaves __init__: no object reaches the caller.
Raise(e) ==
    /\ pc' = "done"
    /\ outcome' = "raised"
    /\ error' = [exc |-> e, at |-> pc]

\* A bare return in __init__: the caller receives the object as it is.
ReturnEarly ==
    /\ pc' = "done"
    /\ outcome' = "returned_early"
    /\ error' = NoError

\* A constructor that classifies before it runs QC.
Goto_fhc_first(next) ==
    /\ pc' = CASE next = "qc" -> "fhc"
               [] next = "precip" /\ pc = "fhc" -> "qc"
               [] next = "fhc" -> "precip"
               [] OTHER -> next
    /\ UNCHANGED <<outcome, error>>

Goto(next) ==
    /\ pc' = next
    /\ UNCHANGED <<outcome, error>>

\* One logged call of a csu_radartools function: the names of the KDP, LDR
\* and classification fields handed to it, use_temp and the temperature grid.
Call(fn, kd, ld, fhc, ut, T) ==
    [fn |-> fn, kd |-> kd, ld |-> ld, fhc |-> fhc, use_temp |-> ut, T |-> T]

\* do_radar_check, then the attribute assignments of lines 204-215.
do_radar_check ==
    /\ pc = "do_radar_check"
    /\ IF env.radar_ok
       THEN /\ Goto("do_name_check")
            /\ self' = [self EXCEPT !.name_kd = kw.kd, !.name_ld = kw.ld]
            /\ UNCHANGED warned
       ELSE /\ ReturnEarly
            /\ warned' = warned \cup {"Need a real Py-ART radar object"}
            /\ UNCHANGED self
    /\ UNCHANGED <<printed, kw, env, fields, calls, qc>>

\* call_csu_kdp followed by the commit in calculate_kdp: FDP and SDP are
\* committed inside call_csu_kdp, KDP after it returned.  kdp_method is
\* 'CSU', the one supported value.
KdpNames == <<"FDP_CSU", "SDP_CSU", "KDP_CSU">>

\* A name test that only looks at the binding, not at radar.fields.
InRadar_bound(flds, name) == name # None

\* A binding that is not None and names a field of radar.fields.
InRadar(flds, name) == name # None /\ flds[name].present

\* The three nested tests of do_name_check (lines 286-288).
RequiredPresent(flds) ==
    InRadar(flds, "DZ") /\ InRadar(flds, "DR") /\ InRadar(flds, "RH")

\* The warning do_name_check issues for the first required field it misses.
wstr == " field not in radar object, check variable names"
MissingWarning(flds) ==
    IF ~InRadar(flds, "DZ") THEN "DZ" \o wstr
    ELSE IF ~InRadar(flds, "DR") THEN "DR" \o wstr ELSE "RH" \o wstr

KdpWarning == "Missing differential phase and KDP fields, failing ..."

\* A calculate_kdp that only tests the binding, not the volume.
CanCalculateKdp_bound(flds, name_dp) == name_dp # None

\* The two tests of calculate_kdp (lines 324-325) on the dp binding.
CanCalculateKdp(flds, name_dp) == name_dp # None /\ flds[name_dp].present

\* A field resolution that computes KDP whatever the caller supplied.
HaveKdp_never(flds, name_kd) == FALSE

\* Lines 297-303: the kd binding is given and names a field of the volume, so
\* that calculate_kdp is not called.
HaveKdp(flds, name_kd) == InRadar(flds, name_kd)

\* do_name_check with calculate_kdp and call_csu_kdp.
do_name_check ==
    /\ pc = "do_name_check"
    /\ LET name_ld == IF InRadar(fields, self.name_ld)
                      THEN self.name_ld ELSE None
       IN  IF ~RequiredPresent(fields)
           THEN /\ ReturnEarly
                /\ warned' = warned \cup {MissingWarning(fields)}
                /\ UNCHANGED <<self, fields, calls>>
           ELSE IF HaveKdp(fields, self.name_kd)
           THEN /\ Goto("get_sounding")
                /\ self' = [self EXCEPT !.name_ld = name_ld]
                /\ UNCHANGED <<warned, fields, calls>>
           ELSE IF ~CanCalculateKdp(fields, kw.dp)
           THEN \* calculate_kdp returns False
                /\ ReturnEarly
                /\ warned' = warned \cup {KdpWarning}
                /\ self' = [self EXCEPT !.name_ld = name_ld]
                /\ UNCHANGED <<fields, calls>>
           ELSE /\ calls' = calls \cup
                       {Call("calc_kdp_bringi", "-", "-", "-", FALSE, "-")}
                /\ UNCHANGED warned
                /\ LET r == try_add_fields(fields, KdpNames, "kdp")
                   IN  /\ fields' = r.flds
                       /\ IF r.ok
                          THEN /\ Goto("get_sounding")
                               /\ self' = [self EXCEPT !.name_ld = name_ld,
                                                       !.name_kd = "KDP_CSU"]
                          ELSE /\ Raise("KeyError")
                               /\ self' = [self EXCEPT !.name_ld = name_ld]
    /\ UNCHANGED <<printed, kw, env, qc>>

-----------------------------------------------------------------------------
(* Sounding ingestion and temperature interpolation                         *)

\* get_sounding up to its call of interpolate_sounding_to_radar: the object
\* attributes after the sounding keyword was read, T_flag having been set to
\* use_temp before (line 221).
ReadSounding(me, sounding, use_temp) ==
    LET me0 == [me EXCEPT !.T_flag = use_temp]
    IN  IF sounding.kind = "none"
        THEN [me0 EXCEPT !.T_flag = FALSE]
        ELSE IF sounding.kind = "file"
        THEN IF sounding.ok
             THEN [me0 EXCEPT !.has_snd_T = TRUE, !.snd_T = sounding.T,
                              !.has_snd_z = TRUE, !.snd_z = sounding.z]
             ELSE [me0 EXCEPT !.T_flag = FALSE]
        ELSE \* a dict: sounding['T'] is read first, then sounding['z']
             IF ~sounding.hasT
             THEN [me0 EXCEPT !.T_flag = FALSE]
             ELSE IF ~sounding.hasZ
             THEN [me0 EXCEPT !.T_flag = FALSE,
                              !.has_snd_T = TRUE, !.snd_T = sounding.T]
             ELSE [me0 EXCEPT !.has_snd_T = TRUE, !.snd_T = sounding.T,
                              !.has_snd_z = TRUE, !.snd_z = sounding.z]

\* The notice get_sounding prints, if any.
SoundingNotice(sounding) ==
    IF sounding.kind = "none" THEN {"No sounding provided"}
    ELSE IF sounding.kind = "file"
    THEN IF sounding.ok THEN {} ELSE {"Sounding read fail"}
    ELSE IF sounding.hasT /\ sounding.hasZ THEN {}
         ELSE {"Sounding in wrong data format"}

\* An interpolation that builds the temperature grid whatever T_flag is.
interpolate_sounding_to_radar_always(me) ==
    [me |-> [me EXCEPT !.radar_T = "grid"], err |-> "none"]

\* interpolate_sounding_to_radar: radar_T is None unless T_flag is set, in
\* which case np.interp maps the normalized profile onto the gates; np.interp
\* raises ValueError on an empty profile.  The result is the object and the
\* exception raised, if any.
interpolate_sounding_to_radar(me) ==
    LET me0 == [me EXCEPT !.radar_T = None]
        norm == check_sounding_for_montonic(me.snd_z, me.snd_T, me.has_snd_z)
        me1 == IF me.has_snd_T /\ norm.err = "none"
               THEN [me0 EXCEPT !.snd_z = norm.z, !.snd_T = norm.T,
                                !.has_snd_z = TRUE]
               ELSE me0
    IN  IF me.has_snd_T /\ norm.err # "none"
        THEN [me |-> me0, err |-> norm.err]
        ELSE IF ~me1.T_flag
        THEN [me |-> me1, err |-> "none"]
        ELSE IF Len(me1.snd_z) = 0
        THEN [me |-> me1, err |-> "ValueError"]
        ELSE [me |-> [me1 EXCEPT !.radar_T = "grid"], err |-> "none"]

\* Lines 220-224 of __init__: get_sounding with the interpolation it ends in.
get_sounding ==
    /\ pc = "get_sounding"
    /\ LET r == interpolate_sounding_to_radar(
                    ReadSounding(self, kw.sounding, kw.use_temp))
       IN  /\ self' = r.me
           /\ printed' = printed \cup SoundingNotice(kw.sounding)
           /\ IF r.err = "none" THEN Goto("qc") ELSE Raise(r.err)
    /\ UNCHANGED <<warned, kw, env, fields, calls, qc>>

-----------------------------------------------------------------------------
(* Quality control                                                          *)

Or(m1, m2) == [g \in Gates |-> m1[g] \/ m2[g]]

\* A do_qc that despeckles the extracted reflectivity instead of the working
\* copy in which the insect and phase-noise gates were set to bad.
do_qc_arrays_raw(flds, speckle, insect_mask, sdp_mask, onBad) ==
    LET dz == extract_unmasked_data(flds, BaseName)
        new_mask == Or(insect_mask, sdp_mask)
        mask_ds == despeckle(dz, speckle, onBad)
    IN  [ran |-> TRUE, dz |-> dz, insect_mask |-> insect_mask,
         sdp_mask |-> sdp_mask, dz_qc |-> Or(dz, new_mask), mask_ds |-> mask_ds,
         final_mask |-> Or(new_mask, mask_ds)]

\* The arrays do_qc computes: the filters' masks come from the library, the
\* working copy dz_qc holds bad where new_mask is set, and the final mask is
\* the union of new_mask and the speckle mask of the working copy.
do_qc_arrays(flds, speckle, insect_mask, sdp_mask, onBad) ==
    LET dz == extract_unmasked_data(flds, BaseName)
        new_mask == Or(insect_mask, sdp_mask)
        dz_qc == Or(dz, new_mask)
        mask_ds == despeckle(dz_qc, speckle, onBad)
    IN  [ran |-> TRUE, dz |-> dz, insect_mask |-> insect_mask,
         sdp_mask |-> sdp_mask, dz_qc |-> dz_qc, mask_ds |-> mask_ds,
         final_mask |-> Or(new_mask, mask_ds)]

\* A do_qc that does not look for the SDP field.
SdpIdentified_always(flds) == TRUE

\* The test of line 410: name_sdp (the default 'SDP_CSU') is in radar.fields.
SdpIdentified(flds) == flds["SDP_CSU"].present

\* Lines 226-233 of __init__ with do_qc.  setattr of 'mask' on reflectivity
\* data that is a plain array (no mask attribute) raises AttributeError.
do_qc ==
    /\ pc = "qc"
    /\ IF ~kw.qc_flag
       THEN /\ Goto("fhc")
            /\ UNCHANGED <<printed, fields, calls, qc>>
       ELSE IF ~SdpIdentified(fields)
       THEN /\ Goto("fhc")
            /\ printed' = printed \cup {"Cannot do QC, no SDP field identified"}
            /\ UNCHANGED <<fields, calls, qc>>
       ELSE LET a == do_qc_arrays(fields, kw.speckle, env.insect_mask,
                                  env.sdp_mask, env.onBad)
            IN  /\ calls' = calls \cup
                       {Call("insect_filter", "-", "-", "-", FALSE, "-"),
                        Call("differential_phase_filter", "-", "-", "-", FALSE, "-"),
                        Call("despeckle", "-", "-", "-", FALSE, "-")}
                /\ qc' = a
                /\ UNCHANGED printed
                /\ IF fields[BaseName].hasMask
                   THEN /\ Goto("fhc")
                        /\ fields' = [fields EXCEPT ![BaseName].mask = a.final_mask]
                   ELSE /\ Raise("AttributeError")
                        /\ UNCHANGED fields
    /\ UNCHANGED <<warned, kw, env, self>>

-----------------------------------------------------------------------------
(* The retrieval stages                                                     *)

\* A stage's commits: the stage goes on when every add_field_to_radar_object
\* call succeeded, and the KeyError of the one that failed leaves __init__.
Commit(names, by, next) ==
    LET r == try_add_fields(fields, names, by)
    IN  /\ fields' = r.flds
        /\ IF r.ok THEN Goto(next) ELSE Raise("KeyError")

\* Lines 235-243 of __init__ with get_hid.  self.band is set only here.
get_hid ==
    /\ pc = "fhc"
    /\ IF ~kw.fhc_flag
       THEN /\ Goto("precip")
            /\ UNCHANGED <<printed, fields, self, calls>>
       ELSE /\ self' = [self EXCEPT !.has_band = TRUE]
            /\ IF kw.winter
               THEN /\ Goto("precip")
                    /\ printed' = printed \cup {"Winter HID not enabled yet, sorry!"}
                    /\ UNCHANGED <<fields, calls>>
               ELSE /\ calls' = calls \cup
                           {Call("csu_fhc_summer", self.name_kd, self.name_ld,
                                 "-", self.T_flag, self.radar_T)}
                    /\ Commit(<<"FH">>, "fhc", "precip")
                    /\ UNCHANGED printed
    /\ UNCHANGED <<warned, kw, env, qc>>

\* Lines 245-250 of __init__ with get_precip_rate.  With rain_method 'hidro'
\* the classification field is looked up in radar.fields under name_fhc.
get_precip_rate ==
    /\ pc = "precip"
    /\ IF ~kw.precip_flag
       THEN /\ Goto("dsd")
            /\ UNCHANGED <<printed, fields, calls>>
       ELSE IF kw.winter
       THEN /\ Goto("dsd")
            /\ printed' = printed \cup {"Winter precip not enabled yet, sorry!"}
            /\ UNCHANGED <<fields, calls>>
       ELSE IF kw.rain_method = "hidro"
       THEN /\ UNCHANGED printed
            /\ IF ~fields["FH"].present
               THEN /\ Raise("KeyError")
                    /\ UNCHANGED <<fields, calls>>
               ELSE /\ calls' = calls \cup
                           {Call("csu_hidro_rain", self.name_kd, "-",
                                 fields["FH"].by, FALSE, "-")}
                    /\ Commit(<<"rain", "method">>, "precip", "dsd")
       ELSE /\ UNCHANGED printed
            /\ calls' = calls \cup
                   {Call("calc_blended_rain", self.name_kd, "-", "-", FALSE, "-")}
            /\ IF kw.ice_flag
               THEN Commit(<<"ZDP", "FI", "rain", "method">>, "precip", "dsd")
               ELSE Commit(<<"rain", "method">>, "precip", "dsd")
    /\ UNCHANGED <<warned, kw, env, self, qc>>

\* Lines 251-254 of __init__ with get_dsd, which reads self.band.
get_dsd ==
    /\ pc = "dsd"
    /\ IF ~kw.dsd_flag
       THEN /\ Goto("mass")
            /\ UNCHANGED <<fields, calls>>
       ELSE IF ~self.has_band
       THEN /\ Raise("AttributeError")
            /\ UNCHANGED <<fields, calls>>
       ELSE /\ calls' = calls \cup
                   {Call("calc_dsd", self.name_kd, "-", "-", FALSE, "-")}
            /\ Commit(<<"D0", "NW", "MU">>, "dsd", "mass")
    /\ UNCHANGED <<warned, printed, kw, env, self, qc>>

\* The end of __init__: the object is returned to the caller.
Return ==
    /\ pc' = "done"
    /\ outcome' = "returned"
    /\ error' = NoError

\* Lines 255-258 of __init__ with get_liquid_and_frozen_mass.  The library
\* is called with T=self.radar_T whatever it is; handed None it either
\* returns its two arrays or fails (env.mass_ok).
get_liquid_and_frozen_mass ==
    /\ pc = "mass"
    /\ IF ~kw.liquid_ice_flag
       THEN /\ Return
            /\ UNCHANGED <<fields, calls>>
       ELSE /\ calls' = calls \cup
                   {Call("calc_liquid_ice_mass", "-", "-", "-", FALSE,
                         self.radar_T)}
            /\ IF self.radar_T = None /\ ~env.mass_ok
               THEN /\ Raise("TypeError")
                    /\ UNCHANGED fields
               ELSE LET r == try_add_fields(fields, <<"MW", "MI">>, "mass")
                    IN  /\ fields' = r.flds
                        /\ IF r.ok THEN Return ELSE Raise("KeyError")
    /\ UNCHANGED <<warned, printed, kw, env, self, qc>>

Next ==
    \/ do_radar_check
    \/ do_name_check
    \/ get_sounding
    \/ do_qc
    \/ get_hid
    \/ get_precip_rate
    \/ get_dsd
    \/ get_liquid_and_frozen_mass

-----------------------------------------------------------------------------
(* The inputs: the volume, the keywords, the sounding                       *)

\* Reflectivity as a masked array, and as a plain array whose bad gates hold
\* the sentinel; fill is "dzfill" when the field has a _FillValue key.
BaseMasked(m, fill) ==
    [present |-> TRUE, hasMask |-> TRUE, mask |-> m, isbad |-> NoMask,
     fill |-> fill, by |-> "caller"]

BasePlain(b, fill) ==
    [present |-> TRUE, hasMask |-> FALSE, mask |-> NoMask, isbad |-> b,
     fill |-> fill, by |-> "caller"]

OneGate(k) == [g \in Gates |-> g = k]

\* The fields of a volume holding the fields named in present.
Volume(present, base) ==
    [f \in FieldNames |->
        IF f \notin present THEN Absent
        ELSE IF f = BaseName THEN base ELSE Supplied]

Sounding(kind, ok, hasT, hasZ, z, T) ==
    [kind |-> kind, ok |-> ok, hasT |-> hasT, hasZ |-> hasZ, z |-> z, T |-> T]

\* Height arrays and masked temperature arrays of length n; the value of a
\* temperature is its index, which tells the entries apart.
ZSeqs(n, top) == [1..n -> 0..top]
TSeqs(n) == {[i \in 1..n |-> Temp(i, m[i])] : m \in [1..n -> BOOLEAN]}

SndNone == Sounding("none", FALSE, FALSE, FALSE, <<>>, <<>>)
SndFileFail == Sounding("file", FALSE, FALSE, FALSE, <<>>, <<>>)
SndGood ==
    Sounding("dict", TRUE, TRUE, TRUE, <<0, 1>>, <<Temp(1, FALSE), Temp(2, FALSE)>>)

\* Every sounding keyword with arrays of up to maxlen entries: none, a file
\* that does or does not parse (its two columns are equally long), a dict
\* lacking 'T', lacking 'z', or holding both with any two lengths.
Soundings(maxlen, top) ==
    {SndNone, SndFileFail}
    \cup UNION {{Sounding("file", TRUE, TRUE, TRUE, z, T) :
                    z \in ZSeqs(n, top), T \in TSeqs(n)} : n \in 1..maxlen}
    \cup {Sounding("dict", TRUE, FALSE, TRUE, <<>>, <<>>)}
    \cup UNION {{Sounding("dict", TRUE, TRUE, FALSE, <<>>, T) : T \in TSeqs(n)} :
                   n \in 0..maxlen}
    \cup UNION {{Sounding("dict", TRUE, TRUE, TRUE, z, T) :
                    z \in ZSeqs(n, top), T \in TSeqs(m)} :
                   n \in 0..maxlen, m \in 0..maxlen}

Kw(kd, dp, ld, use_temp, qc_flag, fhc_flag, precip_flag, dsd_flag, liquid_ice_flag, ice_flag, winter, rain_method, speckle, sounding) ==
    [kd |-> kd, dp |-> dp, ld |-> ld, use_temp |-> use_temp,
     qc_flag |-> qc_flag, fhc_flag |-> fhc_flag, precip_flag |-> precip_flag,
     dsd_flag |-> dsd_flag, liquid_ice_flag |-> liquid_ice_flag,
     ice_flag |-> ice_flag, winter |-> winter, rain_method |-> rain_method,
     speckle |-> speckle, sounding |-> sounding]

Env(radar_ok, insect_mask, sdp_mask, onBad, mass_ok) ==
    [radar_ok |-> radar_ok, insect_mask |-> insect_mask, sdp_mask |-> sdp_mask,
     onBad |-> onBad, mass_ok |-> mass_ok]

RainMethods == {"hidro", "blended"}

\* The inputs of one construction.
Given(k, e, f) == kw = k /\ env = e /\ fields = f

\* Field resolution: every subset of the bound and pre-existing fields, every
\* binding of kd, dp and ld, a radar object that is or is not one.
InputsNames ==
    \E kd \in {None, "KD"}, dp \in {None, "DP"}, ld \in {None, "LD"},
       qcf \in BOOLEAN, rm \in RainMethods, rok \in BOOLEAN,
       present \in SUBSET {"DZ", "DR", "RH", "KD", "LD", "DP", "FH", "SDP_CSU"} :
        Given(Kw(kd, dp, ld, TRUE, qcf, TRUE, TRUE, TRUE, TRUE, FALSE, FALSE,
                 rm, 1, SndGood),
              Env(rok, OneGate(NGates), NoMask, TRUE, TRUE),
              Volume(present, BaseMasked(OneGate(1), "dzfill")))

\* The stage flags: every combination of the flags, the rain method and
\* use_temp, with and without a sounding, a supplied KDP field, a
\* pre-existing classification field and a pre-existing SDP field.
InputsFlags ==
    \E ut \in BOOLEAN, qcf \in BOOLEAN, fhc \in BOOLEAN, pf \in BOOLEAN,
       df \in BOOLEAN, lf \in BOOLEAN, ice \in BOOLEAN, w \in BOOLEAN,
       rm \in RainMethods, snd \in {SndNone, SndFileFail, SndGood},
       mok \in BOOLEAN, extra \in SUBSET {"KD", "FH", "SDP_CSU"} :
        Given(Kw("KD", "DP", None, ut, qcf, fhc, pf, df, lf, ice, w, rm, 1, snd),
              Env(TRUE, OneGate(NGates), NoMask, TRUE, mok),
              Volume({"DZ", "DR", "RH", "DP"} \cup extra,
                     BaseMasked(OneGate(1), "dzfill")))

\* Every reflectivity array: masked or plain, with or without a fill value.
Bases ==
    {BaseMasked(m, fill) : m \in Masks, fill \in {"dzfill", "none"}}
    \cup {BasePlain(b, fill) : b \in Masks, fill \in {"dzfill", "none"}}

\* Masks and QC: every reflectivity array, every pair of filter masks, every
\* speckle length.
InputsQC ==
    \E qcf \in BOOLEAN, sp \in 1..MaxSpeckle, im \in Masks, sm \in Masks,
       ob \in BOOLEAN, base \in Bases :
        Given(Kw(None, "DP", None, TRUE, qcf, TRUE, TRUE, TRUE, TRUE, FALSE,
                 FALSE, "blended", sp, SndGood),
              Env(TRUE, im, sm, ob, TRUE),
              Volume({"DZ", "DR", "RH", "DP"}, base))

\* Soundings: every sounding keyword with short arrays.
InputsSounding ==
    \E ut \in BOOLEAN, fhc \in BOOLEAN, lf \in BOOLEAN, mok \in BOOLEAN,
       snd \in Soundings(MaxSndLen, MaxHeight) :
        Given(Kw(None, "DP", None, ut, FALSE, fhc, TRUE, TRUE, lf, FALSE, FALSE,
                 "blended", 1, snd),
              Env(TRUE, NoMask, NoMask, TRUE, mok),
              Volume({"DZ", "DR", "RH", "DP"}, BaseMasked(OneGate(1), "dzfill")))

\* Optional bindings: every binding of kd and ld, with and without the
\* fields they name, on masked reflectivity with and without a fill value and
\* on plain reflectivity.
InputsOptional ==
    \E kd \in {None, "KD"}, ld \in {None, "LD"}, qcf \in BOOLEAN,
       present \in SUBSET {"KD", "LD", "DP"},
       base \in {BaseMasked(OneGate(1), "dzfill"), BaseMasked(OneGate(1), "none"),
                 BasePlain(OneGate(1), "none")} :
        Given(Kw(kd, "DP", ld, TRUE, qcf, TRUE, TRUE, TRUE, TRUE, FALSE, FALSE,
                 "blended", 1, SndGood),
              Env(TRUE, OneGate(NGates), NoMask, TRUE, TRUE),
              Volume({"DZ", "DR", "RH"} \cup present, base))

NoQC ==
    [ran |-> FALSE, dz |-> NoMask, insect_mask |-> NoMask, sdp_mask |-> NoMask,
     dz_qc |-> NoMask, mask_ds |-> NoMask, final_mask |-> NoMask]

\* The object before __init__ assigned anything.
NewObject ==
    [name_kd |-> "unset", name_ld |-> "unset", T_flag |-> FALSE,
     radar_T |-> "unset", has_snd_T |-> FALSE, has_snd_z |-> FALSE,
     snd_z |-> <<>>, snd_T |-> <<>>, has_band |-> FALSE]

\* The state at the entry of __init__.
Entry ==
    /\ pc = "do_radar_check"
    /\ outcome = "running"
    /\ error = NoError
    /\ warned = {}
    /\ printed = {}
    /\ self = NewObject
    /\ calls = {}
    /\ qc = NoQC

Init ==
    /\ Entry
    /\ (InputsNames \/ InputsFlags \/ InputsQC \/ InputsSounding
           \/ InputsOptional)

Spec == Init /\ [][Next]_vars

\* Sounding profiles alone: every dict of two equally long arrays of up to
\* ProfLen entries with heights 0..ProfTop, all stages enabled.
InputsProfiles ==
    \E n \in 0..ProfLen, ut \in BOOLEAN :
        \E z \in ZSeqs(n, ProfTop), T \in TSeqs(n) :
            Given(Kw(None, "DP", None, ut, TRUE, TRUE, TRUE, TRUE, TRUE, FALSE,
                     FALSE, "blended", 1, Sounding("dict", TRUE, TRUE, TRUE, z, T)),
                  Env(TRUE, OneGate(NGates), NoMask, TRUE, TRUE),
                  Volume({"DZ", "DR", "RH", "DP"}, BaseMasked(OneGate(1), "dzfill")))

InitSnd == Entry /\ InputsProfiles

SpecSnd == InitSnd /\ [][Next]_vars

-----------------------------------------------------------------------------
(* Properties                                                               *)

\* Nothing after field resolution has happened: no library call, no notice,
\* no QC, no sounding ingestion, no field written by the engine.
NothingRan ==
    /\ calls = {}
    /\ printed = {}
    /\ ~qc.ran
    /\ self.radar_T = "unset"
    /\ \A f \in FieldNames : fields[f].by \in {"caller", "nobody"}

\* Python hands the caller an object whenever __init__ returns, early or not.
EngineProduced == outcome \in {"returned", "returned_early"}

\* C1: whenever a step commits a derived field, the mask of the committed
\* field equals, gate by gate, the mask the base reflectivity field has at
\* that moment (no mask counting as nothing masked).
C1_MaskAtCommit ==
    [][\A f \in DerivedNames :
          fields'[f] # fields[f] =>
              /\ fields'[f].hasMask
              /\ fields'[f].mask = MaskOf(fields[BaseName])
              /\ fields'[f].mask = MaskOf(fields'[BaseName])]_vars

\* C1 witness: QC changed the base mask between two commits; the
\* classification field carries the mask of after QC, the KDP field that of
\* before, and the mass stage committed its fields as well.
C1_Witness ==
    /\ qc.ran
    /\ fields["KDP_CSU"].by = "kdp"
    /\ fields["FH"].by = "fhc"
    /\ fields["FH"].mask = fields[BaseName].mask
    /\ fields["KDP_CSU"].mask # fields[BaseName].mask
    /\ fields["MW"].by = "mass"

\* The volume lacks a field bound to dz, dr or rh (and is a radar object).
RequiredMissing == env.radar_ok /\ ~RequiredPresent(fields)

\* C2 as stated: with a required field absent construction is aborted, no
\* later stage runs and no engine object, not even a partial one, is produced
\* (in Python: __init__ is left by an exception).
C2_Original ==
    (pc = "done" /\ RequiredMissing) => (~EngineProduced /\ NothingRan)

\* Field resolution finds no usable KDP field and a usable differential phase.
KdpMustBeComputed ==
    /\ env.radar_ok
    /\ RequiredPresent(fields)
    /\ (kw.kd = None \/ ~fields[kw.kd].present)
    /\ kw.dp # None /\ fields[kw.dp].present

\* C3 as stated: once field resolution is over in that case, KDP_CSU, FDP_CSU
\* and the phase-noise field are committed, name_kd is 'KDP_CSU' and every
\* library call that takes KDP was handed that field.
C3_Original ==
    (KdpMustBeComputed /\ pc \notin {"do_radar_check", "do_name_check"}) =>
        /\ \A f \in {"KDP_CSU", "FDP_CSU", "SDP_CSU"} : fields[f].by = "kdp"
        /\ self.name_kd = "KDP_CSU"
        /\ \A c \in calls : c.kd \in {"-", "KDP_CSU"}

\* Neither a usable KDP field nor a usable differential phase field.
KdpUnavailable ==
    /\ env.radar_ok
    /\ (kw.kd = None \/ ~fields[kw.kd].present)
    /\ (kw.dp = None \/ ~fields[kw.dp].present)

Normalized ==
    /\ self.has_snd_T
    /\ pc \notin {"do_radar_check", "do_name_check", "get_sounding"}
    /\ error.at # "get_sounding"

StrictlyIncreasing(z) == \A i \in 2..Len(z) : z[i] > z[i-1]

\* C5 as stated: the profile check_sounding_for_montonic stores has strictly
\* increasing heights and holds no entry whose temperature was masked.
C5_Original ==
    Normalized =>
        /\ StrictlyIncreasing(self.snd_z)
        /\ \A i \in 1..Len(self.snd_T) : ~self.snd_T[i].inv

\* C6 as stated: normalizing the stored, already normalized profile again
\* yields the same heights and temperatures.
C6_Original ==
    Normalized =>
        check_sounding_for_montonic(self.snd_z, self.snd_T, TRUE)
            = [z |-> self.snd_z, T |-> self.snd_T, err |-> "none"]

\* do_qc reached its last statement and the setattr succeeded.
QCCompleted == qc.ran /\ fields[BaseName].hasMask

\* C7: once do_qc has completed, the mask of the base reflectivity field is,
\* gate by gate, insect mask OR phase-noise mask OR the speckle mask of the
\* working copy, the working copy being the extracted reflectivity with the
\* gates of (insect OR phase-noise) set to bad; the extracted reflectivity is
\* bad where the field was masked before QC (the mask the KDP field copied).
C7_QCComposition ==
    QCCompleted =>
        LET new_mask == Or(env.insect_mask, env.sdp_mask)
            working == Or(qc.dz, new_mask)
        IN  /\ qc.dz_qc = working
            /\ fields[BaseName].mask =
                   Or(new_mask, despeckle(working, kw.speckle, env.onBad))
            /\ fields["KDP_CSU"].by = "kdp" =>
                   qc.dz = Or(fields["KDP_CSU"].mask, fields[BaseName].isbad)

\* C7 witness: QC completed with one gate masked by the insect filter alone,
\* one by the phase-noise filter alone and one, valid in the working copy, by
\* the speckle filter alone, the last being valid only because its
\* neighbours were set to bad in the working copy.
C7_Witness ==
    /\ QCCompleted
    /\ \E g \in Gates : env.insect_mask[g] /\ ~env.sdp_mask[g]
    /\ \E g \in Gates : env.sdp_mask[g] /\ ~env.insect_mask[g]
    /\ \E g \in Gates :
          /\ ~qc.dz_qc[g]
          /\ fields[BaseName].mask[g]
          /\ RunLength(qc.dz, g) > kw.speckle

\* C8 as stated: with rain_method 'hidro' and no classification committed in
\* this run (fhc_flag disabled), csu_hidro_rain is never called.
C8_Original ==
    (kw.rain_method = "hidro" /\ ~kw.fhc_flag) =>
        \A c \in calls : c.fn # "csu_hidro_rain"

\* The sounding keyword gives no usable profile.
NoUsableSounding(s) ==
    \/ s.kind = "none"
    \/ s.kind = "file" /\ ~s.ok
    \/ s.kind = "dict" /\ (~s.hasT \/ ~s.hasZ \/ Len(s.z) # Len(s.T))

\* C9 as stated: without a usable sounding the sounding stage does not raise,
\* the temperature grid stays undefined and T_flag is off.
C9_Original ==
    (NoUsableSounding(kw.sounding) /\ self.radar_T # "unset") =>
        /\ error.at # "get_sounding"
        /\ self.radar_T = None
        /\ ~self.T_flag

\* C10 as stated: with an undefined temperature grid the mass stage neither
\* calls calc_liquid_ice_mass, nor commits MW or MI, nor raises.
C10_Original ==
    self.radar_T = None =>
        /\ \A c \in calls : c.fn # "calc_liquid_ice_mass"
        /\ fields["MW"].by # "mass" /\ fields["MI"].by # "mass"
        /\ error.at # "mass"

\* A field the engine wrote during this construction.
EngineAdded(f) == fields[f].by \notin {"caller", "nobody"}

\* C11 as stated: when construction has completed, every field the engine
\* added, the KDP, FDP and SDP fields included, is masked at every gate at
\* which the base reflectivity field is masked then (that is, after QC).
C11_Original ==
    (pc = "done" /\ outcome = "returned") =>
        \A f \in DerivedNames :
            EngineAdded(f) =>
                \A g \in Gates : MaskOf(fields[BaseName])[g] => fields[f].mask[g]

\* C12: every step that changes the base reflectivity field is a do_qc step
\* with qc_flag set and the SDP field in the volume.  Hence no other stage and
\* no commit changes its mask, and with QC disabled or a no-op the mask at
\* the end of construction is the one the caller supplied.
C12_OnlyQCChangesBase ==
    [][fields'[BaseName] # fields[BaseName] =>
          (pc = "qc" /\ kw.qc_flag /\ fields["SDP_CSU"].present)]_vars

\* C12 witness: QC ran and left a mask that differs from the gates that were
\* bad before it, the KDP stage committed before it, and the four retrieval
\* stages committed after it.
C12_Witness ==
    /\ pc = "done" /\ outcome = "returned"
    /\ qc.ran
    /\ fields[BaseName].mask # qc.dz
    /\ fields["KDP_CSU"].by = "kdp"
    /\ fields["FH"].by = "fhc" /\ fields["rain"].by = "precip"
    /\ fields["D0"].by = "dsd" /\ fields["MW"].by = "mass"

\* The four retrieval stages and the flag that enables each.
RetrievalStages == {"fhc", "precip", "dsd", "mass"}

StageFlag(stage) ==
    CASE stage = "fhc" -> kw.fhc_flag
      [] stage = "precip" -> kw.precip_flag
      [] stage = "dsd" -> kw.dsd_flag
      [] stage = "mass" -> kw.liquid_ice_flag

\* The fields a stage writes when it runs to its end.
Outputs(stage) ==
    CASE stage = "kdp" -> {"KDP_CSU", "FDP_CSU", "SDP_CSU"}
      [] stage = "fhc" -> {"FH"}
      [] stage = "precip" ->
            {"rain", "method"} \cup
            (IF kw.ice_flag /\ kw.rain_method # "hidro" THEN {"ZDP", "FI"} ELSE {})
      [] stage = "dsd" -> {"D0", "NW", "MU"}
      [] stage = "mass" -> {"MW", "MI"}

CommittedAll(stage) == \A f \in Outputs(stage) : fields[f].by = stage

CommittedNone(stage) == \A f \in FieldNames : fields[f].by # stage

\* C13 as stated: with the blended rain method and a temperature grid built
\* from the sounding, construction completes and, for every combination of
\* the four flags, each enabled stage has committed all its fields and each
\* disabled stage none.  (Summer retrievals, QC off as by default, and a
\* reflectivity field whose fill value can be read, so that no commit fails.)
C13_Original ==
    (/\ pc = "done"
     /\ self.radar_T = "grid"
     /\ kw.rain_method = "blended" /\ ~kw.winter /\ ~kw.qc_flag
     /\ ~CommitFails(fields)) =>
        /\ outcome = "returned"
        /\ \A st \in RetrievalStages :
              IF StageFlag(st) THEN CommittedAll(st) ELSE CommittedNone(st)

\* The dz, dr and rh fields are in the volume, and field resolution is over.
Resolved ==
    /\ env.radar_ok
    /\ \A f \in {"DZ", "DR", "RH"} : fields[f].present
    /\ pc \notin {"do_radar_check", "do_name_check"}

\* An optional binding that is given and names a field the volume lacks.
LdAbsent == kw.ld # None /\ ~fields[kw.ld].present
KdAbsent == kw.kd # None /\ ~fields[kw.kd].present

\* What field resolution does when no kd binding is supplied: with a usable
\* differential phase it calls the estimator and commits FDP, SDP and KDP
\* (the first commit raising KeyError when the fill value of the reflectivity
\* field cannot be read), without one it ends with the missing-KDP warning.
AsIfKdNotSupplied ==
    IF kw.dp # None /\ fields[kw.dp].present
    THEN /\ \E c \in calls : c.fn = "calc_kdp_bringi"
         /\ IF CommitFails(fields)
            THEN /\ pc = "done" /\ outcome = "raised"
                 /\ error = [exc |-> "KeyError", at |-> "do_name_check"]
                 /\ CommittedNone("kdp")
            ELSE /\ CommittedAll("kdp")
                 /\ self.name_kd = "KDP_CSU"
                 /\ ~(pc = "done" /\ outcome = "returned_early")
                 /\ error.at # "do_name_check"
    ELSE /\ pc = "done" /\ outcome = "returned_early"
         /\ warned = {KdpWarning}
         /\ NothingRan

PrecipLacksClassification ==
    /\ Resolved
    /\ pc \notin {"get_sounding", "qc", "fhc", "precip"}
    /\ error.at \notin {"do_name_check", "get_sounding", "qc", "fhc"}
    /\ outcome # "returned_early"
    /\ kw.precip_flag /\ kw.rain_method = "hidro" /\ ~kw.winter
    /\ ~fields["FH"].present

\* C15 as stated: when the rain stage fails for lack of a classification
\* field, construction still completes, the DSD stage, if enabled, commits
\* D0, NW and MU and the mass stage, if enabled, commits MW and MI.
C15_Original ==
    (pc = "done" /\ PrecipLacksClassification) =>
        /\ outcome = "returned"
        /\ kw.dsd_flag => CommittedAll("dsd")
        /\ kw.liquid_ice_flag => CommittedAll("mass")

\* Every stage that writes fields, the KDP stage included.
WritingStages == {"kdp"} \cup RetrievalStages

\* C16: in every state, of every stage, either all the fields the stage
\* writes are committed or none is (a stage that failed included).
C16_NoTornStage ==
    \A st \in WritingStages : CommittedAll(st) \/ CommittedNone(st)

\* C16 witness: construction ended by an exception in a stage that commits
\* several fields, after the KDP stage and the rain stage, the latter with
\* its four fields, had committed theirs.
C16_Witness ==
    /\ pc = "done" /\ outcome = "raised" /\ error.at = "dsd"
    /\ CommittedAll("kdp")
    /\ kw.ice_flag /\ CommittedAll("precip") /\ fields["ZDP"].by = "precip"
    /\ CommittedNone("dsd")

\* A KeyError raised by a commit (and not by the rain stage's lookup of a
\* classification field that is not in the volume).
CommitRaised ==
    /\ error.exc = "KeyError"
    /\ ~(error.at = "precip" /\ kw.rain_method = "hidro" /\ ~fields["FH"].present)

\* C17 as stated: every field the engine committed has the fill value of the
\* base reflectivity field when that field has one and the bad-data sentinel
\* otherwise, whether or not the reflectivity data has a mask, and no commit
\* raises for lack of a fill value.
C17_Original ==
    /\ \A f \in DerivedNames :
          EngineAdded(f) =>
              fields[f].fill = IF fields[BaseName].fill # "none"
                               THEN fields[BaseName].fill ELSE "bad"
    /\ ~CommitRaised

\* check_sounding_for_montonic stored a profile of fewer than two entries
\* (the stage either returned or failed in the interpolation after it).
DegenerateProfile ==
    /\ self.has_snd_T
    /\ pc \notin {"do_radar_check", "do_name_check", "get_sounding"}
    /\ error.at = "get_sounding" => error.exc = "ValueError"
    /\ Len(self.snd_z) < 2

\* C18 as stated: when the normalized profile has fewer than two entries,
\* after sounding ingestion T_flag is off, the temperature grid is undefined
\* and no interpolation was attempted (so none failed).
C18_Original ==
    DegenerateProfile =>
        /\ ~self.T_flag
        /\ self.radar_T = None
        /\ error.at # "get_sounding"

\* The stages in the order in which __init__ runs them.
StageOrder ==
    <<"do_radar_check", "do_name_check", "get_sounding", "qc", "fhc", "precip",
      "dsd", "mass">>

\* The stage in which each library function is called, and the flag that has
\* to be set for it to be (the KDP estimator has none).
StageOfCall(fn) ==
    CASE fn = "calc_kdp_bringi" -> "do_name_check"
      [] fn \in {"insect_filter", "differential_phase_filter", "despeckle"} -> "qc"
      [] fn = "csu_fhc_summer" -> "fhc"
      [] fn \in {"csu_hidro_rain", "calc_blended_rain"} -> "precip"
      [] fn = "calc_dsd" -> "dsd"
      [] fn = "calc_liquid_ice_mass" -> "mass"

FlagOfCall(fn) ==
    CASE StageOfCall(fn) = "do_name_check" -> TRUE
      [] StageOfCall(fn) = "qc" -> kw.qc_flag
      [] OTHER -> StageFlag(StageOfCall(fn))

\* C19: every step goes from one stage to the next of the fixed order or ends
\* construction; a library function is called only in its own stage and only
\* when that stage is enabled, the temperature grid is set only by sounding
\* ingestion, a field is written only by the stage it belongs to (the KDP
\* fields by field resolution, before QC); and every field written by
\* classification, rain, DSD or mass carries the mask of the reflectivity
\* field, which is the final mask of do_qc when QC ran.
C19_FixedOrder ==
    [][/\ pc' # pc =>
             \E i \in 1..Len(StageOrder) :
                 /\ pc = StageOrder[i]
                 /\ pc' = "done" \/ (i < Len(StageOrder) /\ pc' = StageOrder[i+1])
       /\ \A c \in calls' \ calls : pc = StageOfCall(c.fn) /\ FlagOfCall(c.fn)
       /\ self'.radar_T # self.radar_T => pc = "get_sounding"
       /\ \A f \in FieldNames :
             fields'[f].by # fields[f].by =>
                 \/ fields'[f].by = "kdp" /\ pc = "do_name_check"
                 \/ fields'[f].by \in RetrievalStages /\ pc = fields'[f].by
       /\ \A f \in FieldNames :
             fields'[f].by \in RetrievalStages =>
                 /\ fields'[f].mask = MaskOf(fields'[BaseName])
                 /\ qc'.ran => fields'[f].mask = qc'.final_mask]_vars

\* C19 witness: a completed construction in which QC masked gates that the
\* reflectivity did not mask before; the fields of the four retrieval stages
\* carry the mask QC left, the KDP field the one from before.
C19_Witness ==
    /\ pc = "done" /\ outcome = "returned"
    /\ qc.ran /\ qc.final_mask # qc.dz
    /\ \A st \in RetrievalStages :
          \A f \in Outputs(st) :
              fields[f].by = st /\ fields[f].mask = qc.final_mask
    /\ CommittedAll("kdp") /\ fields["KDP_CSU"].mask # qc.final_mask

QCNotice == "Cannot do QC, no SDP field identified"

\* C20: a step taken at the QC stage with qc_flag set and no SDP field in the
\* volume prints the notice, leaves every field (the reflectivity mask
\* included) as it is, adds none, calls no filter, raises nothing and hands
\* control to the classification stage.
C20_QCNoOp ==
    [][(pc = "qc" /\ kw.qc_flag /\ ~fields["SDP_CSU"].present) =>
          /\ fields' = fields
          /\ QCNotice \in printed'
          /\ calls' = calls /\ qc' = qc
          /\ pc' = "fhc" /\ outcome' = "running" /\ error' = NoError]_vars

\* C20 witness: the caller supplied the KDP field, so no SDP field exists;
\* QC was enabled and printed its notice without running, and the four
\* retrieval stages after it committed their fields.
C20_Witness ==
    /\ pc = "done" /\ outcome = "returned"
    /\ kw.qc_flag /\ ~qc.ran /\ QCNotice \in printed
    /\ kw.kd # None /\ fields[kw.kd].by = "caller"
    /\ ~fields["SDP_CSU"].present
    /\ \A st \in RetrievalStages : CommittedAll(st)

\* The caller's kd binding names a field that is in the volume.
KdSupplied == env.radar_ok /\ kw.kd # None /\ fields[kw.kd].present

\* C21: when the kd binding names a field of the volume, in every state the
\* estimator has not been called, no KDP_CSU, FDP_CSU or SDP field has been
\* written by the engine, the caller's field is as supplied, name_kd is the
\* caller's binding, and every library call that takes KDP was handed the
\* caller's field.
C21_KdpNotComputed ==
    KdSupplied =>
        /\ \A c \in calls : c.fn # "calc_kdp_bringi"
        /\ \A f \in {"KDP_CSU", "FDP_CSU", "SDP_CSU"} : fields[f].by # "kdp"
        /\ fields[kw.kd] = Supplied
        /\ pc # "do_radar_check" => self.name_kd = kw.kd
        /\ \A c \in calls : c.kd \in {"-", kw.kd}

\* C21 witness: the volume holds both the caller's KDP field and a usable
\* differential phase; construction completed and classification, rain and
\* DSD were each called with the caller's field.
C21_Witness ==
    /\ KdSupplied
    /\ kw.dp # None /\ fields[kw.dp].present
    /\ pc = "done" /\ outcome = "returned"
    /\ \A fn \in {"csu_fhc_summer", "csu_hidro_rain", "calc_dsd"} :
          \E c \in calls : c.fn = fn /\ c.kd = kw.kd

\* C22 as stated: no step, the QC step in particular, leaves a gate of the
\* base reflectivity field unmasked that was masked before it, whatever the
\* three filters return for the gate.
C22_Original ==
    [][\A g \in Gates :
          MaskOf(fields[BaseName])[g] => MaskOf(fields'[BaseName])[g]]_vars

\* get_sounding has returned.
SoundingIngested ==
    /\ self.radar_T # "unset"
    /\ pc \notin {"do_radar_check", "do_name_check", "get_sounding"}
    /\ error.at # "get_sounding"

\* C23: once get_sounding has returned, the temperature grid is defined
\* exactly when T_flag is on; with use_temp False it is undefined whatever
\* the sounding, and the classification and the mass stage are both called
\* with T None.
C23_GridIffFlag ==
    SoundingIngested =>
        /\ self.radar_T = "grid" <=> self.T_flag
        /\ ~self.T_flag => self.radar_T = None
        /\ ~kw.use_temp =>
              /\ ~self.T_flag
              /\ \A c \in calls :
                    c.fn \in {"csu_fhc_summer", "calc_liquid_ice_mass"} =>
                        c.T = None

\* C23 witness: use_temp is False and the sounding is a valid profile of two
\* entries; construction completed, and the mass stage was called with T
\* None and committed its fields.
C23_Witness ==
    /\ SoundingIngested
    /\ ~kw.use_temp /\ kw.sounding = SndGood
    /\ Len(self.snd_z) = 2
    /\ pc = "done" /\ outcome = "returned"
    /\ \E c \in calls : c.fn = "calc_liquid_ice_mass" /\ c.T = None
    /\ CommittedAll("mass")

=============================================================================
